---- MODULE Spec2Model ----
(***************************************************************************)
(* A model of the PTJ trading bot (src/ptj_bot.py): the Position Store     *)
(* (PositionManager), the exit evaluator (check_exit_conditions), the      *)
(* execution layer (buy, sell, verify_position_sync) and the decision loop *)
(* (run_once, run), against an exchange account whose balance reads and    *)
(* market orders can fail.                                                 *)
(*                                                                         *)
(* Prices, KRW amounts and coin quantities are integers.  The percentages  *)
(* of Config are kept as integer percents, and a comparison such as        *)
(*   price <= entry_price * (1 - STOP_LOSS_PCT)                            *)
(* is computed as  price * 100 <= entry_price * (100 - STOP_LOSS_PCT),     *)
(* which agrees with the double arithmetic of the source on every price    *)
(* the model uses.                                                         *)
(*                                                                         *)
(* A handler is a set-valued operator: it maps the world before the call   *)
(* to the set of worlds the call can end in, one per outcome of the remote *)
(* calls it makes.  A world is a record of the program state, the exchange *)
(* account and the log of the running tick.                                *)
(***************************************************************************)
EXTENDS Integers, Sequences, FiniteSets, TLC

VARIABLES
    position,    \* PTJBot.position: the fields of PositionManager
    state_file,  \* ptj_position_state.json: <<>> (absent) or <<state>>
    krw,         \* exchange account: available KRW
    coin,        \* exchange account: available coin quantity
    now,         \* time.time(), in seconds
    ticks,       \* number of run_once calls made so far
    running,     \* the loop of run() has not been interrupted
    log,         \* what the last run_once did (history, read by the properties)
    path,        \* prices handed to check_exit_conditions since the entry
    crossed_up,  \* history: a tick since the last exit saw the upward cross
    call         \* the call made on one component on its own: <<>> when none

vars == <<position, state_file, krw, coin, now, ticks, running, log, path,
          crossed_up, call>>

----------------------------------------------------------------------------
(* Config, src/ptj_bot.py:40-78 *)

MIN_TRADE_AMOUNT == 10000
MA_PERIOD == 200
STOP_LOSS_PCT == 7
TRAILING_STOP_PCT == 10
TRAILING_ACTIVATION_PCT == 8
INVEST_RATIO == 95
ENABLE_REENTRY == TRUE
REENTRY_COOLDOWN == 14400
CHECK_INTERVAL == 3600
API_MAX_RETRIES == 3
API_RETRY_DELAY == 2
SETTLE_DELAY == 2

(* Bounds of the model: the run_once calls of a run, and the prices fed to *)
(* the exit evaluator after one entry                                      *)

MaxTicks == 3
MaxPath == 3

(* The run_once calls made from a flat store that has recorded an exit *)
MaxEntryTicks == 2

(* The calls made on a PositionManager on its own *)
MaxCalls == 4

(* The largest max_attempts given to the retry decorator *)
MaxAttempts == 3

(* Python's None in an Optional[float] field, and in last_exit_reason *)
None == -1
NoReason == "None"

Truthy(x) == x # None /\ x # 0

(* The float NaN, which pandas puts where a rolling mean has too few rows; *)
(* every comparison with it is False                                       *)
NaN == -2

Less(x, y) == x # NaN /\ y # NaN /\ x < y
LessEq(x, y) == x # NaN /\ y # NaN /\ x <= y

(* The prices of the bars and the moving averages a tick can see *)
Prices == {92, 100, 110, 130}
LongAverages == {95, 105}
ShortAverages == {98, 120}

(* The entry prices and the prices fed to the exit evaluator on its own *)
ExitEntries == {100, 107}
ExitPrices == {92, 93, 100, 105, 107, 109, 120, 130}

(* The reasons exit_position is given, and the time between a recorded     *)
(* exit and the next run_once: 3 hours, 4 hours, 4 hours and a minute      *)
ExitReasons == {"Stop Loss (7%)", "Below 200 MA"}
Elapsed == {3 * CHECK_INTERVAL, REENTRY_COOLDOWN, REENTRY_COOLDOWN + 60}

(* The prices handed to a PositionManager on its own, and the time that    *)
(* passes between two calls: a minute, 3 hours, the cooldown               *)
StorePrices == {90, 100, 120}
Waits == {60, 3 * CHECK_INTERVAL, REENTRY_COOLDOWN}

(* The delays given to the retry decorator, and what the wrapped function *)
(* does on one attempt: return a value or raise one of two exceptions      *)
RetryDelays == {1, API_RETRY_DELAY, 5}
Exceptions == {"Timeout", "HTTPError"}
FuncOutcomes == {"ok"} \cup Exceptions

(* The account at start-up *)
InitialKrw == {10000, 20000}
InitialCoin == {0, 50}

----------------------------------------------------------------------------
(* The log of one run_once: which remote calls it made, what they returned *)
(* and what the handlers decided.  Nothing in the program reads it.        *)

EmptyLog ==
    [bars_ok |-> FALSE, price |-> None, balance_ok |-> FALSE,
     sync |-> "none", sync_coin |-> None, has_actual |-> FALSE,
     sync_position |-> [in_position |-> FALSE, entry_price |-> None,
                        highest_price |-> None, entry_time |-> None,
                        last_exit_time |-> None, last_exit_reason |-> "None"],
     evaluated |-> FALSE, sell_signal |-> FALSE, exit_reason |-> "",
     allow_reentry |-> FALSE,
     sell |-> "none", sell_order |-> "none", sell_repoll_ok |-> FALSE,
     sell_remaining |-> None,
     buy |-> "none", buy_order |-> "none", buy_spend |-> None,
     buy_coin_before |-> None, buy_coin_read |-> None, buy_repoll_ok |-> FALSE,
     reentry_checked |-> FALSE,
     buy_time |-> None, buy_last_exit_time |-> None,
     buy_last_exit_reason |-> "None", buy_backtest_rule |-> FALSE,
     rows |-> None,
     buy_price_time |-> None, buy_order_time |-> None,
     sell_price_time |-> None, sell_order_time |-> None,
     notices |-> <<>>, buy_effects |-> 0, sell_effects |-> 0]

----------------------------------------------------------------------------
(* PositionManager *)

InitialPosition ==
    [in_position |-> FALSE, entry_price |-> None, highest_price |-> None,
     entry_time |-> None, last_exit_time |-> None, last_exit_reason |-> NoReason]

(* dict.get(key, default) *)
Get(state, key, default) == IF key \in DOMAIN state THEN state[key] ELSE default

(* load_state that does not read the two prices back *)
load_state_skips_prices(file) ==
    IF file = <<>> THEN InitialPosition
    ELSE LET state == file[1] IN
         [in_position      |-> Get(state, "in_position", FALSE),
          entry_price      |-> None,
          highest_price    |-> None,
          entry_time       |-> Get(state, "entry_time", None),
          last_exit_time   |-> Get(state, "last_exit_time", None),
          last_exit_reason |-> Get(state, "last_exit_reason", NoReason)]

(* __init__ followed by load_state: the fields of the file when it exists *)
load_state(file) ==
    IF file = <<>> THEN InitialPosition
    ELSE LET state == file[1] IN
         [in_position      |-> Get(state, "in_position", FALSE),
          entry_price      |-> Get(state, "entry_price", None),
          highest_price    |-> Get(state, "highest_price", None),
          entry_time       |-> Get(state, "entry_time", None),
          last_exit_time   |-> Get(state, "last_exit_time", None),
          last_exit_reason |-> Get(state, "last_exit_reason", NoReason)]

(* save_state that leaves the trailing high out of the file *)
save_state_without_high(w) ==
    IF w.disk_ok
    THEN [w EXCEPT !.state_file =
            <<[entry_price      |-> w.position.entry_price,
               in_position      |-> w.position.in_position,
               entry_time       |-> w.position.entry_time,
               last_exit_time   |-> w.position.last_exit_time,
               last_exit_reason |-> w.position.last_exit_reason]>>]
    ELSE w

(* save_state: the six fields as one JSON object.  The write can fail     *)
(* (open raises, the file stays as it was); the failure is logged and      *)
(* swallowed.                                                              *)
save_state(w) ==
    IF w.disk_ok
    THEN [w EXCEPT !.state_file =
            <<[entry_price      |-> w.position.entry_price,
               highest_price    |-> w.position.highest_price,
               in_position      |-> w.position.in_position,
               entry_time       |-> w.position.entry_time,
               last_exit_time   |-> w.position.last_exit_time,
               last_exit_reason |-> w.position.last_exit_reason]>>]
    ELSE w

(* enter_position that forgets the last exit *)
enter_position_forgets_exit(w, price) ==
    save_state([w EXCEPT !.position =
        [@ EXCEPT !.entry_price = price, !.highest_price = price,
                  !.in_position = TRUE, !.entry_time = w.now,
                  !.last_exit_time = None, !.last_exit_reason = NoReason]])

enter_position(w, price) ==
    save_state([w EXCEPT !.position =
        [@ EXCEPT !.entry_price = price, !.highest_price = price,
                  !.in_position = TRUE, !.entry_time = w.now]])

HighestOrZero(p) == IF Truthy(p.highest_price) THEN p.highest_price ELSE 0

(* update_highest that takes any price as the new high *)
update_highest_any_price(w, price) ==
    IF w.position.in_position
    THEN save_state([w EXCEPT !.position.highest_price = price])
    ELSE w

(* update_highest: the world after the call (the return value is only logged) *)
update_highest(w, price) ==
    IF w.position.in_position /\ price > HighestOrZero(w.position)
    THEN save_state([w EXCEPT !.position.highest_price = price])
    ELSE w

(* exit_position that forgets to clear the in_position flag *)
exit_position_keeps_flag(w, reason) ==
    save_state([w EXCEPT !.position =
        [@ EXCEPT !.entry_price = None, !.highest_price = None,
                  !.entry_time = None,
                  !.last_exit_time = w.now, !.last_exit_reason = reason]])

exit_position(w, reason) ==
    save_state([w EXCEPT !.position =
        [@ EXCEPT !.entry_price = None, !.highest_price = None,
                  !.in_position = FALSE, !.entry_time = None,
                  !.last_exit_time = w.now, !.last_exit_reason = reason]])

(* can_reenter that still refuses when the cooldown has just run out *)
can_reenter_under_late(enable_reentry, reentry_cooldown, p, t) ==
    IF ~enable_reentry THEN FALSE
    ELSE IF p.last_exit_time = None THEN TRUE
    ELSE LET elapsed == t - p.last_exit_time
             remaining == reentry_cooldown - elapsed
         IN  ~(remaining >= 0)

(* lines 310-325 under the settings Config.ENABLE_REENTRY and              *)
(* Config.REENTRY_COOLDOWN; the first component of the returned pair       *)
can_reenter_under(enable_reentry, reentry_cooldown, p, t) ==
    IF ~enable_reentry THEN FALSE
    ELSE IF p.last_exit_time = None THEN TRUE
    ELSE LET elapsed == t - p.last_exit_time
             remaining == reentry_cooldown - elapsed
         IN  ~(remaining > 0)

(* can_reenter that lets the store re-enter as soon as it has exited *)
can_reenter_ignores_cooldown(p, t) ==
    IF ~ENABLE_REENTRY THEN FALSE ELSE TRUE

can_reenter(p, t) == can_reenter_under(ENABLE_REENTRY, REENTRY_COOLDOWN, p, t)

(* lines 294-299: the value update_highest returns *)
update_highest_returns(w, price) ==
    w.position.in_position /\ price > HighestOrZero(w.position)

(* get_stop_loss_price computed from the high instead of the entry *)
get_stop_loss_price_of_high(p) ==
    IF Truthy(p.highest_price)
    THEN p.highest_price * (100 - STOP_LOSS_PCT)
    ELSE None

(* The two trigger prices, in hundredths (price * 100), None when unset *)
get_stop_loss_price(p) ==
    IF Truthy(p.entry_price)
    THEN p.entry_price * (100 - STOP_LOSS_PCT)
    ELSE None

get_trailing_stop_price(p) ==
    IF Truthy(p.highest_price)
    THEN p.highest_price * (100 - TRAILING_STOP_PCT)
    ELSE None

is_trailing_active(p, current_price) ==
    /\ Truthy(p.entry_price)
    /\ current_price * 100 > p.entry_price * (100 + TRAILING_ACTIVATION_PCT)

----------------------------------------------------------------------------
(* The exchange, as CoinoneAPI sees it.  every remote call either returns  *)
(* or raises once the retries of _request are exhausted.                   *)

SetLog(w, field, value) == [w EXCEPT !.log[field] = value]

(* send_telegram: posts the message; a failure is logged and swallowed, and *)
(* no caller reads the result                                              *)
Delivered(w) == (Len(w.log.notices) + 1) \notin w.env.telegram_down

send_telegram(w, message) ==
    [w EXCEPT !.log.notices =
        Append(@, [message |-> message, delivered |-> Delivered(w)])]

sleep(w, seconds) == [w EXCEPT !.now = @ + seconds]

(* PTJBot.get_balance: (krw, coin) of the account, or (0, 0) when the call *)
(* raised.  ok is not visible to the caller.                               *)
get_balance(w) ==
    { [ok |-> TRUE, krw |-> w.krw, coin |-> w.coin],
      [ok |-> FALSE, krw |-> 0, coin |-> 0] }

(* PTJBot.get_current_price: the last traded price, or None *)
get_current_price(w) == { w.market, None }

(* What the exchange does with a market order that _request submits:       *)
(* "rejected" raises; "filled" is in the balance at the re-poll; "late" is *)
(* accepted and settles only after the settle delay and the re-poll;       *)
(* "lost" raises although an attempt was accepted.                         *)
OrderOutcomes == { "rejected", "filled", "late", "lost" }

(* The exchange takes an order only if the free balance covers it *)
Funded(w, side, size) ==
    IF side = "buy" THEN size <= w.krw + w.late_krw
                    ELSE size <= w.coin + w.late_coin

(* The exchange accepts the order: size is KRW for a buy, coins for a sell *)
Accept(w, side, size, late) ==
    LET d_krw == IF side = "buy" THEN 0 - size ELSE size * w.market
        d_coin == IF side = "buy" THEN size \div w.market ELSE 0 - size
        w1 == IF late
              THEN [w EXCEPT !.late_krw = @ + d_krw, !.late_coin = @ + d_coin]
              ELSE [w EXCEPT !.krw = @ + d_krw, !.coin = @ + d_coin]
    IN  IF side = "buy" THEN [w1 EXCEPT !.log.buy_effects = @ + 1]
                        ELSE [w1 EXCEPT !.log.sell_effects = @ + 1]

Effects(w, side) ==
    IF side = "buy" THEN w.log.buy_effects ELSE w.log.sell_effects

(* _request under @retry for POST /v2.1/order, from attempt number attempt  *)
(* on.  An attempt raises (no connection, an error reply, or, where the   *)
(* environment loses responses, no reply to an accepted order) or returns *)
(* the reply; after a raise the next attempt posts the order again under a *)
(* new nonce, and the last raise reaches the caller.  The sleeps between   *)
(* attempts are those of retry_attempt and are left out of the tick's      *)
(* clock.                                                                  *)
RECURSIVE order_request(_, _, _, _)
order_request(w, side, size, attempt) ==
    LET raise(v) ==
            IF attempt < API_MAX_RETRIES
            THEN order_request(v, side, size, attempt + 1)
            ELSE { [raised |-> TRUE,
                    outcome |-> IF Effects(v, side) > 0 THEN "lost"
                                                        ELSE "rejected",
                    w |-> v] }
        filled == Accept(w, side, size, FALSE)
        late == Accept(w, side, size, TRUE)
    IN  raise(w)
        \cup (IF Funded(w, side, size)
              THEN { [raised |-> FALSE, outcome |-> "filled", w |-> filled],
                     [raised |-> FALSE, outcome |-> "late", w |-> late] }
                   \cup (IF w.env.lost_responses
                         THEN raise(filled) \cup raise(late)
                         ELSE {})
              ELSE {})

buy_market_order(w, amount) == order_request(w, "buy", amount, 1)

sell_market_order(w, qty) == order_request(w, "sell", qty, 1)

(* The orders accepted but not yet settled reach the account *)
Settle(w) ==
    [w EXCEPT !.krw = @ + w.late_krw, !.coin = @ + w.late_coin,
              !.late_krw = 0, !.late_coin = 0]

----------------------------------------------------------------------------
(* PTJBot: the execution layer *)

HasActualPosition(coin_balance, current_price) ==
    coin_balance * current_price > MIN_TRADE_AMOUNT

(* verify_position_sync that reports a stale record without clearing it *)
verify_position_sync_no_clear(w, coin_balance, current_price) ==
    LET has_actual_position == HasActualPosition(coin_balance, current_price)
        w1 == [w EXCEPT !.log.has_actual = has_actual_position,
                        !.log.sync_coin = coin_balance]
    IN  IF has_actual_position /\ ~w.position.in_position
        THEN [ok |-> FALSE,
              w |-> enter_position(
                        send_telegram(SetLog(w1, "sync", "found_untracked"),
                                      "drift"),
                        current_price)]
        ELSE IF ~has_actual_position /\ w.position.in_position
        THEN [ok |-> FALSE,
              w |-> send_telegram(SetLog(w1, "sync", "cleared_stale"),
                                  "drift")]
        ELSE [ok |-> TRUE, w |-> SetLog(w1, "sync", "in_sync")]

(* verify_position_sync that reports an untracked holding without adopting *)
(* it                                                                      *)
verify_position_sync_no_adopt(w, coin_balance, current_price) ==
    LET has_actual_position == HasActualPosition(coin_balance, current_price)
        w1 == [w EXCEPT !.log.has_actual = has_actual_position,
                        !.log.sync_coin = coin_balance]
    IN  IF has_actual_position /\ ~w.position.in_position
        THEN [ok |-> FALSE,
              w |-> send_telegram(SetLog(w1, "sync", "found_untracked"),
                                  "drift")]
        ELSE IF ~has_actual_position /\ w.position.in_position
        THEN [ok |-> FALSE,
              w |-> exit_position(
                        send_telegram(SetLog(w1, "sync", "cleared_stale"),
                                      "drift"),
                        "State mismatch")]
        ELSE [ok |-> TRUE, w |-> SetLog(w1, "sync", "in_sync")]

verify_position_sync(w, coin_balance, current_price) ==
    LET has_actual_position == HasActualPosition(coin_balance, current_price)
        w1 == [w EXCEPT !.log.has_actual = has_actual_position,
                        !.log.sync_coin = coin_balance]
    IN  IF has_actual_position /\ ~w.position.in_position
        THEN [ok |-> FALSE,
              w |-> enter_position(
                        send_telegram(SetLog(w1, "sync", "found_untracked"),
                                      "drift"),
                        current_price)]
        ELSE IF ~has_actual_position /\ w.position.in_position
        THEN [ok |-> FALSE,
              w |-> exit_position(
                        send_telegram(SetLog(w1, "sync", "cleared_stale"),
                                      "drift"),
                        "State mismatch")]
        ELSE [ok |-> TRUE, w |-> SetLog(w1, "sync", "in_sync")]

(* time.sleep(2) after an order, cut short by a KeyboardInterrupt where    *)
(* the environment sends one.  No handler below run() catches it: what is  *)
(* left of run_once is skipped.                                            *)
Interrupted(w, handler) ==
    IF w.env.sigint
    THEN { [ok |-> FALSE,
            w |-> [w EXCEPT !.interrupted = TRUE,
                            !.log[handler] = "interrupted"]] }
    ELSE {}

(* buy that counts a purchase as done only once its notice went out *)
BuyConfirm_needs_notice(w, current_price) ==
    { LET w1 == [w EXCEPT !.log.buy_repoll_ok = b.ok,
                          !.log.buy_coin_read = b.coin]
      IN  IF b.coin > 0 /\ Delivered(w1)
          THEN [ok |-> TRUE,
                w |-> send_telegram(
                          enter_position(SetLog(w1, "buy", "confirmed"),
                                         current_price),
                          "buy")]
          ELSE [ok |-> FALSE, w |-> SetLog(w1, "buy", "unconfirmed")]
      : b \in get_balance(w) }

(* buy, from the re-poll on (lines 455-466) *)
BuyConfirm(w, current_price) ==
    { LET w1 == [w EXCEPT !.log.buy_repoll_ok = b.ok,
                          !.log.buy_coin_read = b.coin]
      IN  IF b.coin > 0
          THEN [ok |-> TRUE,
                w |-> send_telegram(
                          enter_position(SetLog(w1, "buy", "confirmed"),
                                         current_price),
                          "buy")]
          ELSE [ok |-> FALSE, w |-> SetLog(w1, "buy", "unconfirmed")]
      : b \in get_balance(w) }

(* buy, from the order on (lines 452-466) *)
BuySubmit(w, invest_amount, current_price) ==
    UNION { LET w1 == [o.w EXCEPT !.log.buy_order = o.outcome,
                                  !.log.buy_order_time = w.now,
                                  !.log.buy_spend = invest_amount,
                                  !.log.buy_coin_before = w.coin]
            IN  IF o.raised
                THEN { [ok |-> FALSE, w |-> SetLog(w1, "buy", "rejected")] }
                ELSE BuyConfirm(sleep(w1, SETTLE_DELAY), current_price)
                     \cup Interrupted(w1, "buy")
            : o \in buy_market_order(w, invest_amount) }

(* buy that puts less than half of the balance into one order *)
buy_invests_less(w, reason) ==
    UNION { IF b.krw < MIN_TRADE_AMOUNT
            THEN { [ok |-> FALSE, w |-> SetLog(w, "buy", "insufficient")] }
            ELSE LET invest_amount == (b.krw * 45) \div 100 IN
                 UNION { IF current_price = None
                         THEN { [ok |-> FALSE, w |-> SetLog(w, "buy", "no_price")] }
                         ELSE BuySubmit(SetLog(w, "buy_price_time", w.now),
                                        invest_amount, current_price)
                         : current_price \in get_current_price(w) }
            : b \in get_balance(w) }

buy(w, reason) ==
    UNION { IF b.krw < MIN_TRADE_AMOUNT
            THEN { [ok |-> FALSE, w |-> SetLog(w, "buy", "insufficient")] }
            ELSE LET invest_amount == (b.krw * INVEST_RATIO) \div 100 IN
                 UNION { IF current_price = None
                         THEN { [ok |-> FALSE, w |-> SetLog(w, "buy", "no_price")] }
                         ELSE BuySubmit(SetLog(w, "buy_price_time", w.now),
                                        invest_amount, current_price)
                         : current_price \in get_current_price(w) }
            : b \in get_balance(w) }

(* sell, from the re-poll on (lines 483-503) *)
SellConfirm(w, current_price, reason) ==
    { LET w1 == [w EXCEPT !.log.sell_repoll_ok = b.ok,
                          !.log.sell_remaining = b.coin]
      IN  IF b.coin * current_price < MIN_TRADE_AMOUNT
          THEN [ok |-> TRUE,
                w |-> exit_position(
                          send_telegram(SetLog(w1, "sell", "confirmed"), "sell"),
                          reason)]
          ELSE [ok |-> FALSE, w |-> SetLog(w1, "sell", "unconfirmed")]
      : b \in get_balance(w) }

(* sell, from the order on (lines 480-503) *)
SellSubmit(w, coin_balance, current_price, reason) ==
    UNION { LET w1 == [o.w EXCEPT !.log.sell_order = o.outcome,
                                  !.log.sell_order_time = w.now]
            IN  IF o.raised
                THEN { [ok |-> FALSE, w |-> SetLog(w1, "sell", "rejected")] }
                ELSE SellConfirm(sleep(w1, SETTLE_DELAY), current_price, reason)
                     \cup Interrupted(w1, "sell")
            : o \in sell_market_order(w, coin_balance) }

sell(w, reason) ==
    UNION { UNION { IF b.coin <= 0 \/ current_price = None
                    THEN { [ok |-> FALSE, w |-> SetLog(w, "sell", "no_balance")] }
                    ELSE SellSubmit(SetLog(w, "sell_price_time", w.now),
                                    b.coin, current_price, reason)
                    : current_price \in get_current_price(w) }
            : b \in get_balance(w) }

----------------------------------------------------------------------------
(* PTJBot: signals and exit conditions *)

(* The last two rows of the frame get_candles returns, with the rolling    *)
(* means calculate_signals adds to them: of a frame of more than MA_PERIOD *)
(* rows (Frames), of one of exactly MA_PERIOD rows (ShortFrames), whose    *)
(* row before the last has no 200 MA yet, and of one of MA_PERIOD - 1 rows *)
(* (TooShortFrames), which has no 200 MA at all                            *)
Frames ==
    [prev_price : Prices, prev_ma_200 : LongAverages,
     close : Prices, ma_200 : LongAverages, ma_50 : ShortAverages]

ShortFrames ==
    [prev_price : Prices, prev_ma_200 : {NaN},
     close : Prices, ma_200 : LongAverages, ma_50 : ShortAverages]

TooShortFrames ==
    [prev_price : Prices, prev_ma_200 : {NaN},
     close : Prices, ma_200 : {NaN}, ma_50 : ShortAverages]

(* len(df) *)
Rows(df) ==
    IF df.ma_200 = NaN THEN MA_PERIOD - 1
    ELSE IF df.prev_ma_200 = NaN THEN MA_PERIOD
    ELSE MA_PERIOD + 1

(* get_candles: <<df>>, or <<>> for None.  The market has a long history,  *)
(* or, where the environment says so, one of about MA_PERIOD days.         *)
get_candles(w) ==
    { <<>> } \cup { <<df>> : df \in Frames }
    \cup (IF w.env.short_history
          THEN { <<df>> : df \in ShortFrames \cup TooShortFrames }
          ELSE {})

(* get_ohlcv: None also for a frame of fewer than MA_PERIOD rows *)
get_ohlcv(w) ==
    { IF df = <<>> \/ Rows(df[1]) < MA_PERIOD THEN <<>> ELSE df
      : df \in get_candles(w) }

(* calculate_signals whose two crosses accept a close on the average *)
calculate_signals_loose(df) ==
    [current_price  |-> df.close,
     above_200ma    |-> Less(df.ma_200, df.close),
     strong_uptrend |-> Less(df.ma_50, df.close) /\ Less(df.ma_200, df.ma_50),
     buy_signal     |-> LessEq(df.prev_price, df.prev_ma_200)
                            /\ LessEq(df.ma_200, df.close),
     sell_signal    |-> LessEq(df.prev_ma_200, df.prev_price)
                            /\ LessEq(df.close, df.ma_200)]

(* calculate_signals; ma_200, ma_50 and trend are only logged *)
calculate_signals(df) ==
    [current_price  |-> df.close,
     above_200ma    |-> Less(df.ma_200, df.close),
     strong_uptrend |-> Less(df.ma_50, df.close) /\ Less(df.ma_200, df.ma_50),
     buy_signal     |-> LessEq(df.prev_price, df.prev_ma_200)
                            /\ Less(df.ma_200, df.close),
     sell_signal    |-> LessEq(df.prev_ma_200, df.prev_price)
                            /\ Less(df.close, df.ma_200)]

NoExit(w) == [w |-> w, should_exit |-> FALSE, reason |-> "", allow_reentry |-> FALSE]

(* check_exit_conditions that looks at the trend break first *)
check_exit_conditions_trend_first(w, current_price, signals) ==
    IF ~w.position.in_position THEN NoExit(w)
    ELSE
    LET w0 == update_highest(w, current_price)
        w1 == [w0 EXCEPT !.log.evaluated = TRUE,
                         !.log.price = current_price,
                         !.log.sell_signal = signals.sell_signal]
        p == w1.position
        stop_loss_price == get_stop_loss_price(p)
        trailing_stop_price == get_trailing_stop_price(p)
    IN  IF signals.sell_signal
        THEN [w |-> SetLog(w1, "exit_reason", "Below 200 MA"),
              should_exit |-> TRUE, reason |-> "Below 200 MA",
              allow_reentry |-> FALSE]
        ELSE IF Truthy(stop_loss_price) /\ current_price * 100 <= stop_loss_price
        THEN [w |-> [w1 EXCEPT !.log.exit_reason = "Stop Loss (7%)",
                             !.log.allow_reentry = TRUE],
              should_exit |-> TRUE, reason |-> "Stop Loss (7%)",
              allow_reentry |-> TRUE]
        ELSE IF /\ is_trailing_active(p, current_price)
                /\ Truthy(trailing_stop_price)
                /\ current_price * 100 <= trailing_stop_price
        THEN [w |-> [w1 EXCEPT !.log.exit_reason = "Trailing Stop (10%)",
                             !.log.allow_reentry = TRUE],
              should_exit |-> TRUE, reason |-> "Trailing Stop (10%)",
              allow_reentry |-> TRUE]
        ELSE NoExit(w1)

check_exit_conditions(w, current_price, signals) ==
    IF ~w.position.in_position THEN NoExit(w)
    ELSE
    LET w0 == update_highest(w, current_price)
        w1 == [w0 EXCEPT !.log.evaluated = TRUE,
                         !.log.price = current_price,
                         !.log.sell_signal = signals.sell_signal]
        p == w1.position
        stop_loss_price == get_stop_loss_price(p)
        trailing_stop_price == get_trailing_stop_price(p)
    IN  IF Truthy(stop_loss_price) /\ current_price * 100 <= stop_loss_price
        THEN [w |-> [w1 EXCEPT !.log.exit_reason = "Stop Loss (7%)",
                             !.log.allow_reentry = TRUE],
              should_exit |-> TRUE, reason |-> "Stop Loss (7%)",
              allow_reentry |-> TRUE]
        ELSE IF /\ is_trailing_active(p, current_price)
                /\ Truthy(trailing_stop_price)
                /\ current_price * 100 <= trailing_stop_price
        THEN [w |-> [w1 EXCEPT !.log.exit_reason = "Trailing Stop (10%)",
                             !.log.allow_reentry = TRUE],
              should_exit |-> TRUE, reason |-> "Trailing Stop (10%)",
              allow_reentry |-> TRUE]
        ELSE IF signals.sell_signal
        THEN [w |-> SetLog(w1, "exit_reason", "Below 200 MA"),
              should_exit |-> TRUE, reason |-> "Below 200 MA",
              allow_reentry |-> FALSE]
        ELSE NoExit(w1)

----------------------------------------------------------------------------
(* PTJBot.run_once *)

(* src/backtest.py:100, the entry rule of the backtest *)
backtest_buy_signal(ma_cross_up, strong_uptrend, above_200ma, prev_above_200ma) ==
    ma_cross_up \/ (strong_uptrend /\ above_200ma /\ prev_above_200ma = FALSE)

(* The log of a call of buy: the time and the store's last exit at the     *)
(* moment run_once calls self.buy, and whether the bars of the tick        *)
(* satisfy the entry rule of the backtest                                  *)
NoteEntry(w) ==
    LET seen == w.seen[1] IN
    [w EXCEPT !.log.buy_time = w.now,
              !.log.buy_last_exit_time = w.position.last_exit_time,
              !.log.buy_last_exit_reason = w.position.last_exit_reason,
              !.log.buy_backtest_rule =
                  backtest_buy_signal(seen.signals.buy_signal,
                                      seen.signals.strong_uptrend,
                                      seen.signals.above_200ma,
                                      seen.prev_above)]

(* lines 596-611: the reentry after a sell *)
Reentry(r, allow_reentry, signals) ==
    IF r.ok /\ allow_reentry
    THEN LET w1 == SetLog(r.w, "reentry_checked", TRUE) IN
         IF can_reenter(w1.position, w1.now) /\ signals.above_200ma
         THEN LET w2 == sleep(w1, SETTLE_DELAY) IN
              UNION { IF b.krw > MIN_TRADE_AMOUNT
                      THEN { IF x.ok THEN send_telegram(x.w, "reentry") ELSE x.w
                             : x \in buy(NoteEntry(w2), "Reentry (Above 200 MA)") }
                      ELSE { w2 }
                      : b \in get_balance(w2) }
         ELSE { w1 }
    ELSE { r.w }

(* lines 588-630: the decision once the store is known to be in sync *)
Decide(w, signals) ==
    IF w.position.in_position
    THEN LET e == check_exit_conditions(w, signals.current_price, signals) IN
         IF e.should_exit
         THEN UNION { Reentry(r, e.allow_reentry, signals) : r \in sell(e.w, e.reason) }
         ELSE { e.w }
    ELSE IF signals.above_200ma /\ can_reenter(w.position, w.now)
         THEN { x.w : x \in buy(NoteEntry(w),
                                 IF signals.buy_signal THEN "200 MA Breakout"
                                                       ELSE "Above 200 MA") }
         ELSE { w }

(* lines 632-635: the status message at the end of a tick that was not    *)
(* interrupted.  get_status_message reads the balance and the store.      *)
Status(w) == IF w.interrupted THEN w ELSE send_telegram(w, "status")

(* run_once that goes on to the decision after a drift correction *)
RunOnSignals_ignores_drift(w, signals) ==
    LET w1 == [w EXCEPT !.market = signals.current_price,
                        !.log.bars_ok = TRUE,
                        !.log.price = signals.current_price]
    IN  UNION { LET v == verify_position_sync(SetLog(w1, "balance_ok", b.ok),
                                              b.coin, signals.current_price)
                    w2 == SetLog(v.w, "sync_position", v.w.position)
                IN  { Status(x) : x \in Decide(w2, signals) }
                : b \in get_balance(w1) }

(* lines 574-630: from the signals on.  The ticker's last price is the     *)
(* close of the newest bar.                                                *)
RunOnSignals(w, signals) ==
    LET w1 == [w EXCEPT !.market = signals.current_price,
                        !.log.bars_ok = TRUE,
                        !.log.price = signals.current_price]
    IN  UNION { LET v == verify_position_sync(SetLog(w1, "balance_ok", b.ok),
                                              b.coin, signals.current_price)
                    w2 == SetLog(v.w, "sync_position", v.w.position)
                IN  IF ~v.ok THEN { w2 }
                    ELSE { Status(x) : x \in Decide(w2, signals) }
                : b \in get_balance(w1) }

(* What a tick sees of the bars it fetched: the signals, and whether the   *)
(* bar before the newest closed above its 200 MA                           *)
Seen(df) ==
    [signals |-> calculate_signals(df),
     prev_above |-> Less(df.prev_ma_200, df.prev_price),
     rows |-> Rows(df)]

run_once(w) ==
    LET dfs == get_ohlcv(w)
        seen == { Seen(d[1]) : d \in dfs \ { <<>> } }
    IN  (IF <<>> \in dfs THEN { w } ELSE {})
        \cup UNION { RunOnSignals([w EXCEPT !.seen = <<s>>, !.log.rows = s.rows],
                                  s.signals)
                     : s \in seen }

----------------------------------------------------------------------------
(* The state machine *)

(* What the surroundings of the program can do during a tick.  Usual: the  *)
(* market has a long history, nobody interrupts the process, Telegram      *)
(* takes every message and the exchange answers every order it accepts.    *)
(* telegram_down: which sends of the tick fail, by their number in the     *)
(* tick.                                                                   *)
Usual ==
    [short_history |-> FALSE, sigint |-> FALSE, telegram_down |-> {},
     lost_responses |-> FALSE]

(* The world a handler starts in: the program state, the account, and      *)
(* whether the state file can be written during this tick                  *)
World(t, disk_ok) ==
    [position |-> position, state_file |-> state_file, krw |-> krw,
     coin |-> coin, now |-> t, market |-> None, disk_ok |-> disk_ok,
     late_krw |-> 0, late_coin |-> 0, seen |-> <<>>, env |-> Usual, interrupted |-> FALSE, log |-> EmptyLog]

Init ==
    /\ state_file = <<>>
    /\ position = load_state(state_file)
    /\ krw \in InitialKrw
    /\ coin \in InitialCoin
    /\ now = 0
    /\ ticks = 0
    /\ running = TRUE
    /\ log = EmptyLog
    /\ path = <<>>
    /\ crossed_up = FALSE
    /\ call = <<>>

(* The upward cross of the bars a tick fetched, FALSE when it fetched none *)
SawCrossUp(w) == w.seen # <<>> /\ w.seen[1].signals.buy_signal

(* run(): run_once at once, then after every sleep of CHECK_INTERVAL.      *)
(* crossed_up is reset by a tick that records an exit and set by a later   *)
(* tick whose bars cross the 200 MA upwards; it stays FALSE while the      *)
(* store has recorded no exit.                                             *)
TickIn(env) ==
    /\ running
    /\ ticks < MaxTicks
    /\ \E disk_ok \in BOOLEAN :
       \E w \in run_once([World(IF ticks = 0 THEN now ELSE now + CHECK_INTERVAL,
                                disk_ok) EXCEPT !.env = env]) :
          LET settled == Settle(w) IN
          /\ position' = settled.position
          /\ state_file' = settled.state_file
          /\ krw' = settled.krw
          /\ coin' = settled.coin
          /\ now' = settled.now
          /\ log' = settled.log
          /\ crossed_up' =
                IF \/ settled.position.last_exit_time # position.last_exit_time
                   \/ settled.position.last_exit_time = None
                THEN FALSE
                ELSE crossed_up \/ SawCrossUp(w)
          /\ running' = ~w.interrupted
    /\ ticks' = ticks + 1
    /\ UNCHANGED <<path, call>>

Tick == TickIn(Usual)

(* KeyboardInterrupt during the sleep of run() *)
Stop ==
    /\ running
    /\ running' = FALSE
    /\ UNCHANGED <<position, state_file, krw, coin, now, ticks, log, path,
                   crossed_up, call>>

(* main() again: a new PTJBot loads the state file *)
Restart ==
    /\ ~running
    /\ running' = TRUE
    /\ position' = load_state(state_file)
    /\ log' = EmptyLog
    /\ UNCHANGED <<state_file, krw, coin, now, ticks, path, crossed_up, call>>

Next == Tick \/ Stop \/ Restart

Spec == Init /\ [][Next]_vars

----------------------------------------------------------------------------
(* The exit evaluator on its own: a position entered at one of ExitEntries, *)
(* then check_exit_conditions on a sequence of prices and sell signals.    *)

SignalsOf(price, sell_signal) ==
    [current_price |-> price, above_200ma |-> ~sell_signal,
     strong_uptrend |-> FALSE, buy_signal |-> FALSE,
     sell_signal |-> sell_signal]

InitExit ==
    /\ \E entry \in ExitEntries :
          LET w == enter_position(
                     [position |-> InitialPosition, state_file |-> <<>>,
                      krw |-> 0, coin |-> 0, now |-> 0, market |-> entry,
                      disk_ok |-> TRUE, late_krw |-> 0, late_coin |-> 0,
                      seen |-> <<>>, env |-> Usual, interrupted |-> FALSE, log |-> EmptyLog], entry)
          IN  /\ position = w.position
              /\ state_file = w.state_file
    /\ krw = 0
    /\ coin = 200
    /\ now = 0
    /\ ticks = 0
    /\ running = TRUE
    /\ log = EmptyLog
    /\ path = <<>>
    /\ crossed_up = FALSE
    /\ call = <<>>

Evaluate ==
    /\ position.in_position
    /\ Len(path) < MaxPath
    /\ \E price \in ExitPrices, sell_signal \in BOOLEAN :
          LET e == check_exit_conditions(World(now, TRUE), price,
                                         SignalsOf(price, sell_signal))
          IN  /\ position' = e.w.position
              /\ state_file' = e.w.state_file
              /\ log' = e.w.log
              /\ path' = Append(path, [price |-> price,
                                       sell_signal |-> sell_signal,
                                       should_exit |-> e.should_exit,
                                       reason |-> e.reason,
                                       allow_reentry |-> e.allow_reentry,
                                       highest_price |-> e.w.position.highest_price])
    /\ UNCHANGED <<krw, coin, now, ticks, running, crossed_up, call>>

NextExit == Evaluate

SpecExit == InitExit /\ [][NextExit]_vars

----------------------------------------------------------------------------
(* The decision loop from a flat store that has recorded an exit: a        *)
(* position entered and closed at time 0 for one of ExitReasons, and the   *)
(* first run_once of run() one of Elapsed seconds later.                   *)

InitEntry ==
    /\ \E entry \in ExitEntries, reason \in ExitReasons :
          LET w0 == [position |-> InitialPosition, state_file |-> <<>>,
                     krw |-> 0, coin |-> 0, now |-> 0, market |-> entry,
                     disk_ok |-> TRUE, late_krw |-> 0, late_coin |-> 0,
                     seen |-> <<>>, env |-> Usual, interrupted |-> FALSE, log |-> EmptyLog]
              w == exit_position(enter_position(w0, entry), reason)
          IN  /\ position = w.position
              /\ state_file = w.state_file
    /\ krw \in InitialKrw
    /\ coin = 0
    /\ now \in Elapsed
    /\ ticks = 0
    /\ running = TRUE
    /\ log = EmptyLog
    /\ path = <<>>
    /\ crossed_up = FALSE
    /\ call = <<>>

EntryTick == ticks < MaxEntryTicks /\ Tick

NextEntry == EntryTick

SpecEntry == InitEntry /\ [][NextEntry]_vars

----------------------------------------------------------------------------
(* A market listed about MA_PERIOD days ago: the candle request returns    *)
(* MA_PERIOD - 1, MA_PERIOD or more rows.  Two ticks from start-up.        *)
Young == [Usual EXCEPT !.short_history = TRUE]

BarsTick == ticks < MaxEntryTicks /\ TickIn(Young)

NextBars == BarsTick

SpecBars == Init /\ [][NextBars]_vars

----------------------------------------------------------------------------
(* calculate_signals on its own: any last two rows of a frame, a close on  *)
(* the average and a first 200 MA included.  call holds the frame, then    *)
(* the frame and the signals computed from it.                             *)
Levels == {95, 100, 105}

SignalFrames ==
    [prev_price : Levels, prev_ma_200 : Levels \cup {NaN},
     close : Levels, ma_200 : Levels, ma_50 : ShortAverages]

InitSignals ==
    /\ call \in { <<[op |-> "get_ohlcv", df |-> df]>> : df \in SignalFrames }
    /\ position = InitialPosition
    /\ state_file = <<>>
    /\ krw = 0
    /\ coin = 0
    /\ now = 0
    /\ ticks = 0
    /\ running = TRUE
    /\ log = EmptyLog
    /\ path = <<>>
    /\ crossed_up = FALSE

Calculate ==
    /\ call[1].op = "get_ohlcv"
    /\ call' = <<[op |-> "calculate_signals", df |-> call[1].df,
                  signals |-> calculate_signals(call[1].df)]>>
    /\ UNCHANGED <<position, state_file, krw, coin, now, ticks, running,
                   log, path, crossed_up>>

NextSignals == Calculate

SpecSignals == InitSignals /\ [][NextSignals]_vars

----------------------------------------------------------------------------

(* The operator presses Ctrl-C at any time: between two ticks (Stop), or   *)
(* while a tick sleeps after an order.  Two ticks from start-up.           *)
Interruptible == [Usual EXCEPT !.sigint = TRUE]

StopTick == ticks < MaxEntryTicks /\ TickIn(Interruptible)

NextStop == StopTick \/ Stop

SpecStop == Init /\ [][NextStop]_vars

----------------------------------------------------------------------------


(* The Position Store on its own: a PositionManager constructed without a  *)
(* state file, then any of its methods in any order with time passing in   *)
(* between, and a new PositionManager constructed on the file.  call holds *)
(* the last call: the method, its arguments, the store before it and the   *)
(* value it returned ("None" for a method that returns nothing).           *)

StoreCall(op, price, reason, enable, result) ==
    <<[op |-> op, price |-> price, reason |-> reason, enable |-> enable,
       result |-> result, before |-> position, time |-> now]>>

InitStore ==
    /\ state_file = <<>>
    /\ position = load_state(state_file)
    /\ krw = 0
    /\ coin = 0
    /\ now = 0
    /\ ticks = 0
    /\ running = TRUE
    /\ log = EmptyLog
    /\ path = <<>>
    /\ crossed_up = FALSE
    /\ call = <<>>

StoreEnter ==
    /\ ticks < MaxCalls
    /\ \E price \in StorePrices, disk_ok \in BOOLEAN :
          LET w == enter_position(World(now, disk_ok), price) IN
          /\ position' = w.position
          /\ state_file' = w.state_file
          /\ call' = StoreCall("enter_position", price, "", TRUE, "None")
    /\ ticks' = ticks + 1
    /\ UNCHANGED <<krw, coin, now, running, log, path, crossed_up>>

StoreUpdate ==
    /\ ticks < MaxCalls
    /\ \E price \in StorePrices, disk_ok \in BOOLEAN :
          LET w0 == World(now, disk_ok)
              w == update_highest(w0, price)
          IN  /\ position' = w.position
              /\ state_file' = w.state_file
              /\ call' = StoreCall("update_highest", price, "", TRUE,
                                   update_highest_returns(w0, price))
    /\ ticks' = ticks + 1
    /\ UNCHANGED <<krw, coin, now, running, log, path, crossed_up>>

StoreExit ==
    /\ ticks < MaxCalls
    /\ \E reason \in ExitReasons, disk_ok \in BOOLEAN :
          LET w == exit_position(World(now, disk_ok), reason) IN
          /\ position' = w.position
          /\ state_file' = w.state_file
          /\ call' = StoreCall("exit_position", None, reason, TRUE, "None")
    /\ ticks' = ticks + 1
    /\ UNCHANGED <<krw, coin, now, running, log, path, crossed_up>>

StoreCanReenter ==
    /\ ticks < MaxCalls
    /\ \E enable \in BOOLEAN :
          call' = StoreCall("can_reenter", None, "", enable,
                            can_reenter_under(enable, REENTRY_COOLDOWN,
                                              position, now))
    /\ ticks' = ticks + 1
    /\ UNCHANGED <<position, state_file, krw, coin, now, running, log, path,
                   crossed_up>>

StoreWait ==
    /\ ticks < MaxCalls
    /\ \E seconds \in Waits : now' = now + seconds
    /\ call' = <<>>
    /\ ticks' = ticks + 1
    /\ UNCHANGED <<position, state_file, krw, coin, running, log, path,
                   crossed_up>>

StoreLoad ==
    /\ ticks < MaxCalls
    /\ position' = load_state(state_file)
    /\ call' = StoreCall("load_state", None, "", TRUE, "None")
    /\ ticks' = ticks + 1
    /\ UNCHANGED <<state_file, krw, coin, now, running, log, path, crossed_up>>

NextStore ==
    \/ StoreEnter \/ StoreUpdate \/ StoreExit
    \/ StoreCanReenter \/ StoreWait \/ StoreLoad

SpecStore == InitStore /\ [][NextStore]_vars

----------------------------------------------------------------------------
(* The retry decorator on its own (lines 98-115): one call of a wrapped    *)
(* function.  call holds the frame of wrapper: the decorator's arguments,  *)
(* the loop index, what func did on each attempt so far, last_exception,   *)
(* the waits handed to time.sleep, and how the call ended.                 *)

RetryFrame(max_attempts, delay) ==
    [op |-> "retry", max_attempts |-> max_attempts, delay |-> delay,
     attempt |-> 0, outcomes |-> <<>>, last_exception |-> "None",
     slept |-> <<>>, status |-> "running", result |-> "None"]

(* one iteration that sleeps after every failure, the last one included *)
retry_attempt_always_sleeps(c, outcome) ==
    IF outcome \notin Exceptions
    THEN [c EXCEPT !.outcomes = Append(@, outcome),
                   !.status = "returned", !.result = outcome]
    ELSE [c EXCEPT !.outcomes = Append(@, outcome),
                   !.last_exception = outcome,
                   !.slept = Append(@, c.delay * (c.attempt + 1)),
                   !.attempt = @ + 1]

(* lines 103-112: one iteration of the for loop, func returning or raising *)
(* outcome                                                                 *)
retry_attempt(c, outcome) ==
    IF outcome \notin Exceptions
    THEN [c EXCEPT !.outcomes = Append(@, outcome),
                   !.status = "returned", !.result = outcome]
    ELSE [c EXCEPT !.outcomes = Append(@, outcome),
                   !.last_exception = outcome,
                   !.slept = IF c.attempt < c.max_attempts - 1
                             THEN Append(@, c.delay * (c.attempt + 1))
                             ELSE @,
                   !.attempt = @ + 1]

(* line 113: raise last_exception once the loop has run out *)
retry_exhausted(c) == [c EXCEPT !.status = "raised", !.result = c.last_exception]

Sum(seq) == IF seq = <<>> THEN 0
            ELSE LET RECURSIVE S(_)
                     S(n) == IF n = 0 THEN 0 ELSE seq[n] + S(n - 1)
                 IN  S(Len(seq))

InitRetry ==
    /\ \E max_attempts \in 1..MaxAttempts, delay \in RetryDelays :
          call = <<RetryFrame(max_attempts, delay)>>
    /\ state_file = <<>>
    /\ position = load_state(state_file)
    /\ krw = 0
    /\ coin = 0
    /\ now = 0
    /\ ticks = 0
    /\ running = TRUE
    /\ log = EmptyLog
    /\ path = <<>>
    /\ crossed_up = FALSE

RetryAttempt ==
    /\ call[1].status = "running"
    /\ call[1].attempt < call[1].max_attempts
    /\ \E outcome \in FuncOutcomes :
          LET c == retry_attempt(call[1], outcome) IN
          /\ call' = <<c>>
          /\ now' = now + Sum(c.slept) - Sum(call[1].slept)
    /\ UNCHANGED <<position, state_file, krw, coin, ticks, running, log, path,
                   crossed_up>>

RetryRaise ==
    /\ call[1].status = "running"
    /\ call[1].attempt >= call[1].max_attempts
    /\ call' = <<retry_exhausted(call[1])>>
    /\ UNCHANGED <<position, state_file, krw, coin, now, ticks, running, log,
                   path, crossed_up>>

NextRetry == RetryAttempt \/ RetryRaise

(* The wrapper runs on its own thread of control and neither func (which   *)
(* has a timeout) nor time.sleep blocks for ever: its next step is taken.  *)
SpecRetry == InitRetry /\ [][NextRetry]_vars /\ WF_vars(NextRetry)

----------------------------------------------------------------------------
(* A PositionManager constructed on a state file that save_state did not   *)
(* write in full: a JSON object holding any subset of the six keys, taken  *)
(* from a store in position or from a flat store with a recorded exit.     *)

FieldNames ==
    {"entry_price", "highest_price", "in_position", "entry_time",
     "last_exit_time", "last_exit_reason"}

SavedStates ==
    { [in_position |-> TRUE, entry_price |-> 100, highest_price |-> 120,
       entry_time |-> 0, last_exit_time |-> None, last_exit_reason |-> NoReason],
      [in_position |-> FALSE, entry_price |-> None, highest_price |-> None,
       entry_time |-> None, last_exit_time |-> CHECK_INTERVAL,
       last_exit_reason |-> "Stop Loss (7%)"] }

StateFiles ==
    { [k \in keys |-> state[k]] : keys \in SUBSET FieldNames, state \in SavedStates }

InitLoad ==
    /\ state_file \in { <<file>> : file \in StateFiles }
    /\ position = InitialPosition
    /\ krw = 0
    /\ coin = 0
    /\ now \in {CHECK_INTERVAL, CHECK_INTERVAL + REENTRY_COOLDOWN}
    /\ ticks = 0
    /\ running = TRUE
    /\ log = EmptyLog
    /\ path = <<>>
    /\ crossed_up = FALSE
    /\ call = <<>>

NextLoad == StoreLoad

SpecLoad == InitLoad /\ [][NextLoad]_vars

----------------------------------------------------------------------------
(* Telegram fails on any of the messages of a tick, of which a tick sends  *)
(* at most four (sale, purchase, re-entry, status).  The first tick after  *)
(* a start on any saved state, with any holding at the exchange.           *)
MaxSends == 4

Outages == SUBSET (1..MaxSends)

Holdings == {0, 50, 200}

InitResumed ==
    /\ state_file \in { <<>> } \cup { <<state>> : state \in SavedStates }
    /\ position = load_state(state_file)
    /\ krw \in InitialKrw
    /\ coin \in Holdings
    /\ now \in {CHECK_INTERVAL, CHECK_INTERVAL + REENTRY_COOLDOWN}
    /\ ticks = 0
    /\ running = TRUE
    /\ log = EmptyLog
    /\ path = <<>>
    /\ crossed_up = FALSE
    /\ call = <<>>

NotifyTick ==
    /\ ticks = 0
    /\ \E down \in Outages : TickIn([Usual EXCEPT !.telegram_down = down])

NextNotify == NotifyTick

SpecNotify == InitResumed /\ [][NextNotify]_vars

----------------------------------------------------------------------------
(* The reply to an accepted order can get lost.  The first tick after a    *)
(* start on any saved state, with any holding at the exchange.             *)
Lossy == [Usual EXCEPT !.lost_responses = TRUE]

LossyTick == ticks = 0 /\ TickIn(Lossy)

NextLossy == LossyTick

SpecLossy == InitResumed /\ [][NextLossy]_vars

----------------------------------------------------------------------------
(* Properties of the decision loop and the execution layer (Spec) *)

IsTick == ticks' = ticks + 1

(* C1: a run_once whose balance read fails (get_balance exhausts its       *)
(* retries) changes no field of the Position Store.                        *)
C1_BalanceFailureLeavesStore ==
    [][(IsTick /\ log'.bars_ok /\ ~log'.balance_ok) => position' = position]_vars

(* C2: sell calls exit_position only when the re-poll after the market     *)
(* sell really reported a remaining value below the minimum; after every   *)
(* other outcome of sell the store is still in position.                   *)
C2_SellExitsOnlyOnReportedRemainder ==
    /\ log.sell = "confirmed" =>
          /\ log.sell_repoll_ok
          /\ log.sell_remaining * log.price < MIN_TRADE_AMOUNT
    /\ log.sell \in {"no_balance", "rejected", "unconfirmed"} =>
          position.in_position

(* C3: buy calls enter_position only if the asset balance read after the   *)
(* market buy is greater than the asset balance held before the order;     *)
(* after every other outcome of buy the store is still flat.               *)
C3_BuyEntersOnlyOnGrowth ==
    /\ log.buy = "confirmed" => log.buy_coin_read > log.buy_coin_before
    /\ log.buy \in {"insufficient", "no_price", "rejected", "unconfirmed"} =>
          ~position.in_position

(* C4: every market buy that is submitted spends at least the minimum      *)
(* tradable amount.                                                        *)
C4_BuySpendsAtLeastMinimum ==
    log.buy_order # "none" => log.buy_spend >= MIN_TRADE_AMOUNT

(* C5: verify_position_sync reconciles the store to the reported holding:  *)
(* a real holding with a flat store is adopted at the current price and    *)
(* reported as drift, a record without a real holding is cleared and       *)
(* reported as drift, anything else is left alone and reported in sync;    *)
(* afterwards in_position equals "the reported holding is real".           *)
C5_VerifySyncReconciles ==
    [][(IsTick /\ log'.sync # "none") =>
         LET real == log'.sync_coin * log'.price > MIN_TRADE_AMOUNT
             q == log'.sync_position
         IN  /\ q.in_position = real
             /\ (real /\ ~position.in_position) =>
                   /\ log'.sync = "found_untracked"
                   /\ q.entry_price = log'.price
                   /\ q.highest_price = log'.price
                   /\ q.last_exit_time = position.last_exit_time
             /\ (~real /\ position.in_position) =>
                   /\ log'.sync = "cleared_stale"
                   /\ q.entry_price = None
                   /\ q.highest_price = None
                   /\ q.last_exit_time # None
             /\ (real = position.in_position) =>
                   /\ log'.sync = "in_sync"
                   /\ q = position]_vars

C5_Witness == log.sync = "found_untracked" /\ log.balance_ok

(* C6: in a tick where verify_position_sync corrected drift there is no    *)
(* exit evaluation, no market buy and no market sell, and the store is as  *)
(* the correction left it.                                                 *)
IsDrift == log.sync \in {"found_untracked", "cleared_stale"}

C6_DriftCorrectionWins ==
    IsDrift =>
        /\ ~log.evaluated
        /\ log.buy = "none" /\ log.buy_order = "none"
        /\ log.sell = "none" /\ log.sell_order = "none"
        /\ position = log.sync_position

C6_Witness == log.sync = "cleared_stale" /\ log.balance_ok

(* C7: verify_position_sync is idempotent: a second call with the same     *)
(* balance and price reports in sync and leaves the store and the state    *)
(* file as the first call left them; for the call the last tick made and   *)
(* for every balance and price in the current state.                       *)
SyncCoins == {0, 50, 95, 200}

SyncTwice(w, c, p) ==
    LET r1 == verify_position_sync(w, c, p)
        r2 == verify_position_sync(sleep(r1.w, SETTLE_DELAY), c, p)
    IN  /\ r2.ok
        /\ r2.w.position = r1.w.position
        /\ r2.w.state_file = r1.w.state_file

C7_VerifySyncIdempotent ==
    /\ log.sync # "none" =>
          LET r == verify_position_sync(
                       [World(now, TRUE) EXCEPT !.position = log.sync_position],
                       log.sync_coin, log.price)
          IN  r.ok /\ r.w.position = log.sync_position
    /\ \A c \in SyncCoins, p \in Prices, disk_ok \in BOOLEAN :
          SyncTwice(World(now, disk_ok), c, p)

C7_Witness == IsDrift /\ ticks >= 2 /\ position.last_exit_time # None

----------------------------------------------------------------------------
(* Properties of the exit evaluator (SpecExit).  position.entry_price is   *)
(* the entry of the open position; path[i].highest_price is the high the   *)
(* i-th evaluation left, the one its triggers were computed from.          *)

StopLossCondition(e) ==
    e.price * 100 <= position.entry_price * (100 - STOP_LOSS_PCT)

TrailingStopCondition(e) ==
    /\ e.price * 100 > position.entry_price * (100 + TRAILING_ACTIVATION_PCT)
    /\ e.price * 100 <= e.highest_price * (100 - TRAILING_STOP_PCT)

PathPrices == [i \in DOMAIN path |-> path[i].price]

NoCrossedDown == \A i \in DOMAIN path : ~path[i].sell_signal

(* C8: the exit triggers are evaluated in the order stop-loss, trailing    *)
(* stop, trend break, and the first that holds gives the reason, whatever  *)
(* the later ones say.                                                     *)
C8_ExitPriority ==
    \A i \in DOMAIN path :
        LET e == path[i] IN
        /\ StopLossCondition(e) =>
              e.should_exit /\ e.reason = "Stop Loss (7%)"
        /\ (~StopLossCondition(e) /\ TrailingStopCondition(e)) =>
              e.should_exit /\ e.reason = "Trailing Stop (10%)"
        /\ (~StopLossCondition(e) /\ ~TrailingStopCondition(e) /\ e.sell_signal) =>
              e.should_exit /\ e.reason = "Below 200 MA"

C8_Witness ==
    \E i, j \in DOMAIN path :
        /\ path[i].sell_signal /\ StopLossCondition(path[i])
        /\ path[i].reason = "Stop Loss (7%)"
        /\ path[j].sell_signal /\ TrailingStopCondition(path[j])
        /\ path[j].reason = "Trailing Stop (10%)"

(* C9: entry at 100, prices 109, 120, 107 and no crossed-down signal: the  *)
(* position stays open at 109 and at 120, the high is 120, and at 107 the  *)
(* evaluator reports an exit with reason trailing stop.                    *)
C9_TrailingStopScenario ==
    (/\ position.entry_price = 100
     /\ PathPrices = <<109, 120, 107>>
     /\ NoCrossedDown) =>
        /\ ~path[1].should_exit
        /\ ~path[2].should_exit
        /\ path[2].highest_price = 120
        /\ path[3].should_exit
        /\ path[3].reason = "Trailing Stop (10%)"

(* C10: the evaluator reports stop-loss, with reentry permitted, exactly   *)
(* when price <= entry_price * (1 - STOP_LOSS_PCT); with entry 100 there   *)
(* is no exit at 105 and a stop-loss exit at 92.                           *)
C10_StopLoss ==
    /\ \A i \in DOMAIN path :
          LET e == path[i] IN
          /\ (e.should_exit /\ e.reason = "Stop Loss (7%)") <=> StopLossCondition(e)
          /\ e.reason = "Stop Loss (7%)" => e.allow_reentry
    /\ (/\ position.entry_price = 100
        /\ PathPrices = <<105, 92>>
        /\ NoCrossedDown) =>
          /\ ~path[1].should_exit
          /\ path[2].should_exit
          /\ path[2].reason = "Stop Loss (7%)"
          /\ path[2].allow_reentry

C10_Witness ==
    /\ position.entry_price = 100
    /\ PathPrices = <<105, 92>>
    /\ NoCrossedDown
    /\ path[2].reason = "Stop Loss (7%)"

----------------------------------------------------------------------------
(* Properties of the entry decision (SpecEntry, Spec) *)

(* C11: after an exit for the trend break ("Below 200 MA") no market buy   *)
(* is submitted in that tick or in a later one until a tick whose bars     *)
(* cross the 200 MA upwards: a buy made while the last exit is a trend     *)
(* break comes in or after a tick that saw the upward cross.               *)
C11_TrendBreakBlocksUntilCrossUp ==
    (log.buy_order # "none" /\ log.buy_last_exit_reason = "Below 200 MA")
        => crossed_up

(* C12: from a flat store run_once calls buy only when the bars cross the  *)
(* 200 MA upwards, or show the strong trend above the 200 MA with the      *)
(* previous bar not above it: the entry rule of the backtest.              *)
C12_FlatEntryFollowsBacktestRule ==
    (log.buy # "none" /\ log.sell = "none") => log.buy_backtest_rule

C15_ExitFieldsFrame ==
    [][(\/ position'.last_exit_time # position.last_exit_time
        \/ position'.last_exit_reason # position.last_exit_reason)
       => (log'.sell = "confirmed" \/ log'.sync = "cleared_stale")]_vars

C15_Witness ==
    /\ log.buy = "confirmed"
    /\ position.in_position
    /\ position.last_exit_time = 0
    /\ position.last_exit_reason \in ExitReasons

----------------------------------------------------------------------------
(* Properties of the Position Store (SpecStore) *)

CalledOp == IF call = <<>> THEN "" ELSE call[1].op

(* C14: can_reenter answers True exactly when reentry is enabled and the   *)
(* store has recorded no exit or the exit is at least the cooldown old:    *)
(* False 3 hours after the exit, True 4 hours and 4 hours 1 minute after   *)
(* it, and always False with reentry disabled.                             *)
C14_CanReenter ==
    CalledOp = "can_reenter" =>
        LET c == call[1]
            last == c.before.last_exit_time
        IN  /\ c.result = (c.enable /\ (last = None \/
                                         c.time - last >= REENTRY_COOLDOWN))
            /\ (last # None /\ c.time - last < REENTRY_COOLDOWN) => ~c.result
            /\ ~c.enable => ~c.result

C14_Witness ==
    /\ CalledOp = "can_reenter"
    /\ call[1].enable
    /\ call[1].before.last_exit_time # None
    /\ call[1].time - call[1].before.last_exit_time = REENTRY_COOLDOWN
    /\ call[1].result

(* C16: a store in position has highest_price >= entry_price, and          *)
(* update_highest never lowers highest_price whatever the order of the     *)
(* prices: a price not above the high, or a call on a flat store, changes  *)
(* nothing and returns False; a price above the high becomes the high.     *)
C16_HighestNeverDecreases ==
    /\ position.in_position => position.highest_price >= position.entry_price
    /\ CalledOp = "update_highest" =>
          LET c == call[1]
              b == c.before
          IN  /\ b.in_position =>
                    /\ position.in_position
                    /\ position.highest_price >= b.highest_price
                    /\ position.highest_price >= c.price
              /\ (~b.in_position \/ c.price <= b.highest_price) =>
                    (position = b /\ c.result = FALSE)
              /\ (b.in_position /\ c.price > b.highest_price) =>
                    (position.highest_price = c.price /\ c.result = TRUE)

C16_Witness ==
    /\ CalledOp = "update_highest"
    /\ call[1].before.in_position
    /\ call[1].before.entry_price = 100
    /\ call[1].before.highest_price = 120
    /\ call[1].price = 90
    /\ position.highest_price = 120

C18_EnterWhileInPositionFails ==
    (CalledOp = "enter_position" /\ call[1].before.in_position) =>
        /\ call[1].result = "AlreadyInPosition"
        /\ position.entry_price = call[1].before.entry_price
        /\ position.highest_price = call[1].before.highest_price
        /\ position.entry_time = call[1].before.entry_time

(* C19: exit_position called on a store that is already flat fails with    *)
(* NotInPosition and leaves last_exit_time and last_exit_reason as they    *)
(* were.                                                                   *)
C19_ExitWhileFlatFails ==
    (CalledOp = "exit_position" /\ ~call[1].before.in_position) =>
        /\ call[1].result = "NotInPosition"
        /\ position.last_exit_time = call[1].before.last_exit_time
        /\ position.last_exit_reason = call[1].before.last_exit_reason

----------------------------------------------------------------------------
(* Properties of the retry decorator (SpecRetry) *)

RetryShape ==
    LET c == call[1]
        made == Len(c.outcomes)
    IN  /\ made <= c.max_attempts
        /\ \A k \in 1..made - 1 : c.outcomes[k] \in Exceptions
        /\ \A k \in 1..Len(c.slept) : c.slept[k] = c.delay * k
        /\ now = Sum(c.slept)
        /\ c.status = "returned" =>
              /\ c.outcomes[made] \notin Exceptions
              /\ c.result = c.outcomes[made]
              /\ Len(c.slept) = made - 1
        /\ c.status = "raised" =>
              /\ made = c.max_attempts
              /\ c.outcomes[made] \in Exceptions
              /\ c.result = c.outcomes[made]
              /\ Len(c.slept) = made - 1
        /\ c.status = "running" =>
              /\ \A k \in 1..made : c.outcomes[k] \in Exceptions
              /\ Len(c.slept) = IF made < c.max_attempts THEN made ELSE made - 1

(* C20: a call through the retry wrapper ends; it makes at most            *)
(* max_attempts attempts, returns the first success without a further      *)
(* attempt, raises the last failure when every attempt failed, waits       *)
(* delay * k before attempt k + 1 and does not wait after the last         *)
(* attempt.                                                                *)
C20_RetryTerminates ==
    /\ []RetryShape
    /\ <>(call[1].status # "running")

C20_Witness ==
    /\ call[1].status = "raised"
    /\ call[1].max_attempts = 3
    /\ call[1].delay = API_RETRY_DELAY
    /\ call[1].outcomes = <<"Timeout", "Timeout", "HTTPError">>
    /\ call[1].result = "HTTPError"
    /\ call[1].slept = <<2, 4>>

(* C22: enter_position, an update_highest that raises the high and         *)
(* exit_position return normally only once the state file holds the state  *)
(* in memory, also when the write to the file can fail.                    *)
C22_DurableBeforeSuccess ==
    (\/ CalledOp \in {"enter_position", "exit_position"}
     \/ (CalledOp = "update_highest" /\ call[1].result = TRUE))
        => state_file = <<position>>

(* C24: for every state of the store, a save_state whose write succeeds    *)
(* followed by a new PositionManager on that file gives back the six       *)
(* fields, hence the same cooldown answer and the same trailing stop.      *)
Restarted == load_state(save_state(World(now, TRUE)).state_file)

C23_LoadAllOrNothing ==
    (CalledOp = "load_state" /\ DOMAIN state_file[1] # FieldNames)
        => position = InitialPosition

(* C25: a tick whose bar history has fewer than MA_PERIOD + 1 rows,        *)
(* exactly MA_PERIOD included, ends without a snapshot: no balance read,   *)
(* no drift correction and no order.  Refuted by a history of exactly     *)
(* MA_PERIOD rows, which get_ohlcv lets through.                           *)
C25_ShortHistoryDoesNothing ==
    (log.rows # None /\ log.rows < MA_PERIOD + 1)
        => /\ ~log.bars_ok
           /\ ~log.balance_ok
           /\ log.sync = "none"
           /\ log.buy = "none"
           /\ log.sell = "none"

(* The last two closes lie strictly on the same side of their 200 MA *)
SameSide(df) ==
    \/ Less(df.prev_ma_200, df.prev_price) /\ Less(df.ma_200, df.close)
    \/ Less(df.prev_price, df.prev_ma_200) /\ Less(df.close, df.ma_200)

(* C26: buy_signal (the upward cross) and sell_signal (the downward cross) *)
(* are never both true, and both are false when the close was strictly     *)
(* above, or strictly below, the 200 MA on the previous and on the current *)
(* bar.                                                                    *)
C26_CrossesExclusive ==
    (call # <<>> /\ call[1].op = "calculate_signals")
        => LET df == call[1].df
               s == call[1].signals
           IN  /\ ~(s.buy_signal /\ s.sell_signal)
               /\ SameSide(df) => (~s.buy_signal /\ ~s.sell_signal)

C26_Witness ==
    /\ call # <<>>
    /\ call[1].op = "calculate_signals"
    /\ SameSide(call[1].df)
    /\ call[1].df.close > call[1].df.prev_price
    /\ ~call[1].signals.buy_signal

(* C29: the price that buy hands to enter_position, and the price by which *)
(* sell values the remaining coins, is read after the order was submitted  *)
(* and the settle delay has passed.  Refuted: both handlers read the price *)
(* before they submit the order.                                           *)
C29_PriceReadAfterSettle ==
    /\ log.buy = "confirmed"
          => log.buy_price_time >= log.buy_order_time + SETTLE_DELAY
    /\ log.sell = "confirmed"
          => log.sell_price_time >= log.sell_order_time + SETTLE_DELAY

(* C21: the loop ends only between ticks: when the program has stopped,    *)
(* the last tick ran to its end, and an order it submitted was followed by *)
(* the balance re-poll that confirms it or not.  Refuted by an interrupt   *)
(* during the sleep after the order.                                       *)
C21_StopOnlyBetweenTicks ==
    ~running
        => /\ log.buy_order \in {"filled", "late"}
                => log.buy \in {"confirmed", "unconfirmed"}
           /\ log.sell_order \in {"filled", "late"}
                => log.sell \in {"confirmed", "unconfirmed"}

(* The last tick submitted an order that the exchange accepted, and ended  *)
(* without recording it                                                    *)
Unconfirmed ==
    \/ log.buy = "unconfirmed" /\ log.buy_order \in {"filled", "late"}
    \/ log.sell = "unconfirmed" /\ log.sell_order \in {"filled", "late"}

Quiet(w) == [w EXCEPT !.log.notices = <<>>, !.env = Usual]

C31_ConfirmationAgreesWithSync ==
    /\ log.buy = "confirmed"
          => verify_position_sync(World(now, TRUE),
                                  log.buy_coin_read, log.price).ok
    /\ (log.sell = "confirmed" /\ log.buy = "none")
          => verify_position_sync(World(now, TRUE),
                                  log.sell_remaining, log.price).ok

====
